---- MODULE Spec2Model ----
(***************************************************************************)
(* Resumable chunked upload service (Backend/server.py).                   *)
(*                                                                         *)
(* Shared state: the Redis session store, the chunk files of TEMP_DIR and  *)
(* the assembled files of FINAL_DIR.  Requests are served by concurrent    *)
(* handlers (uvicorn runs several workers, and every handler suspends at   *)
(* its awaits), so a handler is a sequence of steps; a step is the code    *)
(* between two accesses to the shared state.                               *)
(***************************************************************************)
EXTENDS Integers, Sequences, FiniteSets, TLC

\* ------------------------------------------------------------------ bounds
NumProcs == 2           \* handlers that can be in flight at once
MaxUploads == 1         \* upload ids that initiate_upload can hand out
MaxTotalSize == 2       \* largest accepted total_size tried
MaxChunkSize == 2       \* largest chunk_size tried
MaxData == 2            \* distinct byte blocks a client can send
NBlocks == 1            \* 8192-byte reads that make up one chunk body
NumFilenames == 1       \* distinct target filenames clients use
MaxRequests == 4        \* requests the service accepts in one run
TicksPerTimeout == 3    \* clock ticks that make up UPLOAD_TIMEOUT
MaxTicks == 4           \* clock ticks in one run
SharedUploads == 2      \* upload ids when uploads share the service
SharedFilenames == 2    \* ... and the target filenames they use
SharedRequests == 6     \* ... and the requests of such a run

\* ------------------------------------------------------- program constants
\* Config.MAX_FILE_SIZE, 20 * 1024 * 1024 * 1024 bytes.  Sizes are counted in
\* KiB here: TLC's integers are 32 bits wide.
MAX_FILE_SIZE == 20 * 1024 * 1024

\* Config.UPLOAD_TIMEOUT, in seconds
UPLOAD_TIMEOUT == 3600

\* main.py: for i in range(10000)
MAX_PROBE == 10000

\* ----------------------------------------------------------------- domains
Max(a, b) == IF a >= b THEN a ELSE b

Procs == 1..NumProcs
Uploads == 1..Max(MaxUploads, SharedUploads)
MaxChunks == MaxTotalSize
ChunkIndexes == -1..MaxChunks
FileIndexes == -1..(MaxChunks - 1)
Data == 1..MaxData
Hole == 0
Filenames == 1..Max(NumFilenames, SharedFilenames)
TotalSizes == 0..MaxTotalSize \cup {MAX_FILE_SIZE + 1}
ChunkSizes == 1..MaxChunkSize

Range(s) == {s[i] : i \in DOMAIN s}

\* range(n)
PyRange(n) == 0..(n - 1)

\* --------------------------------------------------------------- checksums
\* hashlib.sha256(...).hexdigest(): a collision-free digest of the bytes,
\* never the empty string.
Sha256(bytes) == <<Len(bytes)>> \o bytes

\* Optional[str]: None, or a string ("" is the empty string).
None == [given |-> FALSE, hex |-> <<>>]
Str(h) == [given |-> TRUE, hex |-> h]
EmptyStr == Str(<<>>)

\* Python truthiness of an Optional[str]: None and "" are falsy.
Truthy(c) == c.given /\ c.hex # <<>>

\* The body of one upload-chunk request: NBlocks reads of the same block.
Payload(d) == [i \in 1..NBlocks |-> d]

ChunkChecksums == {None, EmptyStr} \cup {Str(Sha256(Payload(d))) : d \in Data}

\* The bytes of a file made of the chunk bodies ds[1], ds[2], ...
FileOf(ds) == [i \in 1..(Len(ds) * NBlocks) |-> ds[((i - 1) \div NBlocks) + 1]]

FinalChecksums ==
    {EmptyStr} \cup
    {Str(Sha256(FileOf(ds))) : ds \in UNION {[1..n -> Data] : n \in 0..MaxChunks}}

\* ------------------------------------------------------------------- files
NoFile == [exists |-> FALSE, content |-> <<>>]
EmptyFile == [exists |-> TRUE, content |-> <<>>]

\* f.write(blocks) on a descriptor whose position is off.
WriteAt(content, off, blocks) ==
    [i \in 1..Max(Len(content), off + Len(blocks)) |->
        IF i > off /\ i <= off + Len(blocks) THEN blocks[i - off]
        ELSE IF i <= Len(content) THEN content[i]
        ELSE Hole]

\* Blob addressing: TEMP_DIR / f"{upload_id}_{chunk_index:06d}.part"
ChunkPath(upload_id, chunk_index) == <<upload_id, chunk_index>>
ChunkPaths == Uploads \X FileIndexes

\* main.py: CHUNK_DIR / f"{upload_id}_{chunk_index}.part"
SimplePath(upload_id, chunk_index) == <<upload_id, chunk_index>>
SimplePaths == Uploads \X ChunkIndexes

\* ---------------------------------------------------------------- sessions
NoSession == [upload_id |-> 0]

UploadSession(upload_id, filename, total_size, total_chunks, created_at, expires_at) ==
    [upload_id |-> upload_id, filename |-> filename, total_size |-> total_size,
     total_chunks |-> total_chunks, uploaded_chunks |-> <<>>,
     created_at |-> created_at, expires_at |-> expires_at]

\* initiate_upload's chunk count
TotalChunks(total_size, chunk_size) == (total_size + chunk_size - 1) \div chunk_size

\* ---------------------------------------------------------------- workloads
\* One upload, every kind of input.
Workload ==
    [requests |-> MaxRequests, uploads |-> MaxUploads,
     filenames |-> 1..NumFilenames,
     total_sizes |-> TotalSizes, chunk_sizes |-> ChunkSizes,
     chunk_indexes |-> ChunkIndexes, data |-> Data,
     checksums |-> ChunkChecksums, original_checksums |-> FinalChecksums]

\* Two uploads that share the service and choose among two filenames; one
\* chunk each, sent with no checksum or with a wrong one.
SharedWorkload ==
    [requests |-> SharedRequests, uploads |-> SharedUploads,
     filenames |-> 1..SharedFilenames,
     total_sizes |-> {1}, chunk_sizes |-> {1},
     chunk_indexes |-> {0}, data |-> {1},
     checksums |-> {None, Str(Sha256(Payload(MaxData)))},
     original_checksums |-> {EmptyStr, Str(Sha256(FileOf(<<>>)))}]

\* One upload of one chunk, while the clock runs.
ClockWorkload ==
    [requests |-> MaxRequests, uploads |-> MaxUploads,
     filenames |-> 1..NumFilenames,
     total_sizes |-> {1}, chunk_sizes |-> {1},
     chunk_indexes |-> {0}, data |-> {1},
     checksums |-> {None, Str(Sha256(Payload(MaxData)))},
     original_checksums |-> {EmptyStr, Str(Sha256(FileOf(<<>>)))}]

\* ------------------------------------------------------------------- state
VARIABLES
    redis,       \* upload_id -> the stored session, or NoSession
    temp_dir,    \* chunk path -> file
    final_dir,   \* filename -> file
    next_uuid,   \* the next upload id uuid4() hands out
    proc,        \* per handler: its position and its locals
    requests,    \* requests accepted so far
    response,    \* the answer the last step sent, with its request, if it sent one
    uploaded,    \* history: upload_id -> indices some call answered "uploaded" for
    cancelled,   \* history: upload ids whose cancel has been acknowledged
    purged,      \* history: upload ids whose cancel has run both its clean-up tasks
    finalized,   \* history: filenames some finalize answered "completed" for
    now,         \* the clock, in seconds since the service started
    expiry,      \* upload_id -> the time Redis drops the key at (0: no key)
    expired,     \* history: upload ids whose key Redis has dropped on time-out
    produced,    \* history: filename -> the upload whose finalize last completed there
    chunk_dir,   \* main.py: CHUNK_DIR, chunk path -> file
    uploads_dir, \* main.py: uploads/, filename -> file
    workload     \* what the clients of this run send (it never changes)

vars == <<redis, temp_dir, final_dir, next_uuid, proc, requests, response,
          uploaded, cancelled, purged, finalized,
          now, expiry, expired, produced, chunk_dir, uploads_dir, workload>>

history == <<uploaded, cancelled, purged, finalized, expired, produced>>

\* The state of the simple server (main.py), a service of its own.
simple == <<chunk_dir, uploads_dir>>

\* What no handler of server.py touches.
outside == <<simple, workload>>

Idle ==
    [pc |-> "idle", op |-> "none", exc |-> "none", upload_id |-> 0, chunk_index |-> 0, data |-> 0,
     checksum |-> None, session |-> NoSession, filename |-> 0,
     fd_live |-> FALSE, pos |-> 0, chunk_idx |-> 0, after_cancel |-> FALSE]

NoResponse == [op |-> "none"]

\* The service has started: no session, empty directories.
Started ==
    /\ redis = [u \in Uploads |-> NoSession]
    /\ temp_dir = [path \in ChunkPaths |-> NoFile]
    /\ final_dir = [f \in Filenames |-> NoFile]
    /\ next_uuid = 1
    /\ proc = [p \in Procs |-> Idle]
    /\ requests = 0
    /\ response = NoResponse
    /\ uploaded = [u \in Uploads |-> {}]
    /\ cancelled = {}
    /\ purged = {}
    /\ finalized = {}
    /\ now = 0
    /\ expiry = [u \in Uploads |-> 0]
    /\ expired = {}
    /\ produced = [f \in Filenames |-> 0]
    /\ chunk_dir = [path \in SimplePaths |-> NoFile]
    /\ uploads_dir = [f \in Filenames |-> NoFile]

Init == Started /\ workload = Workload

InitShared == Started /\ workload = SharedWorkload

InitClock == Started /\ workload = ClockWorkload

\* get_upload_session
get_upload_session(upload_id) == redis[upload_id]

\* save_upload_session: setex overwrites the whole stored value
save_upload_session(session) == [redis EXCEPT ![session.upload_id] = session]

\* ... and setex starts the key's time-to-live afresh
setex(upload_id, seconds) == [expiry EXCEPT ![upload_id] = now + seconds]

\* An answer, with the request it answers.
Response(op, req, result) ==
    [op |-> op, upload_id |-> req.upload_id, chunk_index |-> req.chunk_index,
     data |-> req.data, checksum |-> req.checksum, filename |-> req.filename,
     after_cancel |-> req.after_cancel, result |-> result]

HTTPException(code, detail) ==
    [status |-> "error", code |-> code, detail |-> detail, cause |-> "none"]

\* except Exception as e: raise HTTPException(500, f"{detail}: {str(e)}")
Reraised(detail, e) == [status |-> "error", code |-> 500, detail |-> detail, cause |-> e]

\* The path a handler holds an open descriptor on, if any.
OpenPath(q) ==
    IF q.pc = "uc_write" THEN <<"chunk", ChunkPath(q.upload_id, q.chunk_index)>>
    ELSE IF q.pc = "fin_loop" THEN <<"final", q.filename>>
    ELSE <<"none", 0>>

\* path.unlink(): the name goes; descriptors still open on the file keep
\* writing to a file nobody can reach any more.
Orphaned(procs, path) ==
    [q \in Procs |-> IF OpenPath(procs[q]) = path
                     THEN [procs[q] EXCEPT !.fd_live = FALSE] ELSE procs[q]]

\* A request arrives.
Accept == requests < workload.requests /\ requests' = requests + 1

\* ------------------------------------------------------- POST /initiate-upload
FileTooLarge(total_size) == total_size > MAX_FILE_SIZE

initiate_upload(filename, total_size, chunk_size) ==
    /\ Accept
    /\ next_uuid <= workload.uploads
    /\ LET req == [Idle EXCEPT !.filename = filename]
           upload_id == next_uuid
           total_chunks == TotalChunks(total_size, chunk_size)
           session == UploadSession(upload_id, filename, total_size, total_chunks,
                                    now, now + UPLOAD_TIMEOUT)
       IN IF FileTooLarge(total_size)
          THEN /\ response' = Response("initiate", req, HTTPException(400, "File too large"))
               /\ UNCHANGED <<redis, expiry, next_uuid>>
          ELSE /\ redis' = save_upload_session(session)
               /\ expiry' = setex(upload_id, UPLOAD_TIMEOUT)
               /\ next_uuid' = next_uuid + 1
               /\ response' = Response("initiate", [req EXCEPT !.upload_id = upload_id],
                                  [status |-> "initiated", upload_id |-> upload_id,
                                   total_chunks |-> total_chunks, chunk_size |-> chunk_size])
    /\ UNCHANGED <<temp_dir, final_dir, proc, history, now, outside>>

\* --------------------------------------------------------- POST /upload-chunk
InvalidChunkIndex(chunk_index, session) == chunk_index >= session.total_chunks

\* (mutant) the duplicate test compares against nothing
AlreadyUploaded_never(chunk_index, session) == chunk_index \in {}

AlreadyUploaded(chunk_index, session) == chunk_index \in Range(session.uploaded_chunks)

\* (mutant) the comparison is inverted: a matching checksum is refused, a
\* differing one accepted
ChecksumMismatch_inverted(checksum, calculated_checksum) ==
    Truthy(checksum) /\ checksum.hex = calculated_checksum

ChecksumMismatch(checksum, calculated_checksum) ==
    Truthy(checksum) /\ checksum.hex # calculated_checksum

\* lines 150-158: look the session up and answer at once when there is
\* nothing to store
upload_chunk(p, upload_id, chunk_index, data, checksum) ==
    /\ Accept
    /\ proc[p].pc = "idle"
    /\ LET session == get_upload_session(upload_id)
           req == [Idle EXCEPT !.op = "upload_chunk",
                               !.upload_id = upload_id, !.chunk_index = chunk_index,
                               !.data = data, !.checksum = checksum,
                               !.after_cancel = upload_id \in cancelled]
       IN IF session = NoSession
          THEN /\ response' = Response("upload_chunk", req,
                                  HTTPException(404, "Upload session not found"))
               /\ UNCHANGED proc
          ELSE IF InvalidChunkIndex(chunk_index, session)
          THEN /\ response' = Response("upload_chunk", req,
                                  HTTPException(400, "Invalid chunk index"))
               /\ UNCHANGED proc
          ELSE IF AlreadyUploaded(chunk_index, session)
          THEN /\ response' = Response("upload_chunk", req,
                                  [status |-> "already_uploaded", chunk_index |-> chunk_index])
               /\ UNCHANGED proc
          ELSE /\ proc' = [proc EXCEPT ![p] = [req EXCEPT !.pc = "uc_open", !.session = session]]
               /\ response' = NoResponse
    /\ UNCHANGED <<redis, temp_dir, final_dir, next_uuid, history, now, expiry, outside>>

\* line 168: aiofiles.open(chunk_path, "wb") creates the file at the chunk
\* address, or empties the one that is there
upload_chunk_open(p) ==
    /\ proc[p].pc = "uc_open"
    /\ LET path == ChunkPath(proc[p].upload_id, proc[p].chunk_index)
       IN /\ temp_dir' = [temp_dir EXCEPT ![path] = EmptyFile]
          /\ proc' = [proc EXCEPT ![p].pc = "uc_write", ![p].fd_live = TRUE, ![p].pos = 0]
    /\ response' = NoResponse
    /\ UNCHANGED <<requests, redis, final_dir, next_uuid, history, now, expiry, outside>>

\* lines 169-172: one read of the body, written where the descriptor stands
upload_chunk_write(p) ==
    /\ proc[p].pc = "uc_write"
    /\ LET path == ChunkPath(proc[p].upload_id, proc[p].chunk_index)
           pos == proc[p].pos
           last == pos + 1 = NBlocks
       IN /\ temp_dir' =
                IF proc[p].fd_live
                THEN [temp_dir EXCEPT ![path].content = WriteAt(@, pos, <<proc[p].data>>)]
                ELSE temp_dir
          /\ proc' = [proc EXCEPT ![p].pos = IF last THEN 0 ELSE pos + 1,
                                  ![p].pc = IF last THEN "uc_verify" ELSE "uc_write",
                                  ![p].fd_live = IF last THEN FALSE ELSE @]
    /\ response' = NoResponse
    /\ UNCHANGED <<requests, redis, final_dir, next_uuid, history, now, expiry, outside>>

\* lines 174-190: compare the checksums; on a mismatch remove the file and
\* raise, otherwise record the index and save the session
upload_chunk_verify(p) ==
    /\ proc[p].pc = "uc_verify"
    /\ LET upload_id == proc[p].upload_id
           chunk_index == proc[p].chunk_index
           path == ChunkPath(upload_id, chunk_index)
           calculated_checksum == Sha256(Payload(proc[p].data))
           session == [proc[p].session EXCEPT
                          !.uploaded_chunks = Append(@, chunk_index)]
       IN IF ChecksumMismatch(proc[p].checksum, calculated_checksum)
          THEN \* chunk_path.unlink(), then HTTPException(400) (or
               \* FileNotFoundError when the file is gone): both are caught
               \* by the handler's own except Exception
               /\ temp_dir' = [temp_dir EXCEPT ![path] = NoFile]
               /\ proc' = [Orphaned(proc, <<"chunk", path>>) EXCEPT
                              ![p].pc = "uc_except",
                              ![p].exc = IF temp_dir[path].exists
                                         THEN "Chunk checksum mismatch"
                                         ELSE "FileNotFoundError"]
               /\ response' = NoResponse
               /\ UNCHANGED <<redis, expiry, uploaded>>
          ELSE /\ redis' = save_upload_session(session)
               /\ expiry' = setex(upload_id, UPLOAD_TIMEOUT)
               /\ IF session.total_chunks = 0
                  THEN \* the progress division raises ZeroDivisionError
                       /\ proc' = [proc EXCEPT ![p].pc = "uc_except",
                                               ![p].exc = "ZeroDivisionError"]
                       /\ response' = NoResponse
                       /\ UNCHANGED uploaded
                  ELSE /\ proc' = [proc EXCEPT ![p] = Idle]
                       /\ response' = Response("upload_chunk", proc[p],
                            [status |-> "uploaded", chunk_index |-> chunk_index,
                             checksum |-> calculated_checksum, size |-> NBlocks,
                             progress |-> <<Len(session.uploaded_chunks), session.total_chunks>>])
                       /\ uploaded' = [uploaded EXCEPT ![upload_id] = @ \cup {chunk_index}]
               /\ UNCHANGED temp_dir
    /\ UNCHANGED <<requests, final_dir, next_uuid, cancelled, purged, finalized,
                   expired, produced, now, outside>>

\* lines 192-195: the handler's except Exception
upload_chunk_except(p) ==
    /\ proc[p].pc = "uc_except"
    /\ LET path == ChunkPath(proc[p].upload_id, proc[p].chunk_index)
       IN /\ temp_dir' = [temp_dir EXCEPT ![path] = NoFile]
          /\ proc' = [Orphaned(proc, <<"chunk", path>>) EXCEPT ![p] = Idle]
    /\ response' = Response("upload_chunk", proc[p], Reraised("Upload failed", proc[p].exc))
    /\ UNCHANGED <<requests, redis, final_dir, next_uuid, history, now, expiry, outside>>

\* ------------------------------------------------- GET /upload-status/{upload_id}
MissingChunks(session) == PyRange(session.total_chunks) \ Range(session.uploaded_chunks)

get_upload_status(upload_id) ==
    /\ Accept
    /\ LET session == get_upload_session(upload_id)
           req == [Idle EXCEPT !.upload_id = upload_id,
                               !.after_cancel = upload_id \in cancelled]
       IN response' = Response("status", req,
            IF session = NoSession
            THEN HTTPException(404, "Upload session not found")
            ELSE IF session.total_chunks = 0
            THEN \* ZeroDivisionError, not handled
                 HTTPException(500, "Internal Server Error")
            ELSE [status |-> "status", total_chunks |-> session.total_chunks,
                  uploaded_chunks |-> Len(session.uploaded_chunks),
                  missing_chunks |-> MissingChunks(session),
                  progress |-> <<Len(session.uploaded_chunks), session.total_chunks>>])
    /\ UNCHANGED <<redis, temp_dir, final_dir, next_uuid, proc, history, now, expiry, outside>>

\* ------------------------------------------------------ POST /finalize-upload
\* line 229: the completeness test
AllChunksUploaded(session) == Len(session.uploaded_chunks) = session.total_chunks

\* lines 224-231
finalize_upload(p, upload_id, filename, original_checksum) ==
    /\ Accept
    /\ proc[p].pc = "idle"
    /\ LET session == get_upload_session(upload_id)
           req == [Idle EXCEPT !.op = "finalize",
                               !.upload_id = upload_id, !.filename = filename,
                               !.checksum = original_checksum,
                               !.after_cancel = upload_id \in cancelled]
       IN IF session = NoSession
          THEN /\ response' = Response("finalize", req,
                                  HTTPException(404, "Upload session not found"))
               /\ UNCHANGED proc
          ELSE IF ~AllChunksUploaded(session)
          THEN /\ response' = Response("finalize", req,
                                  [status |-> "error", code |-> 400,
                                   detail |-> "Missing chunks", cause |-> "none",
                                   missing |-> MissingChunks(session)])
               /\ UNCHANGED proc
          ELSE /\ proc' = [proc EXCEPT ![p] = [req EXCEPT !.pc = "fin_open", !.session = session]]
               /\ response' = NoResponse
    /\ UNCHANGED <<redis, temp_dir, final_dir, next_uuid, history, now, expiry, outside>>

\* The final address: FINAL_DIR / request.filename
FinalPath(p) == proc[p].filename

\* lines 234-239: aiofiles.open(final_path, "wb")
finalize_open(p) ==
    /\ proc[p].pc = "fin_open"
    /\ final_dir' = [final_dir EXCEPT ![FinalPath(p)] = EmptyFile]
    /\ proc' = [proc EXCEPT ![p].pos = 0, ![p].chunk_idx = 0,
                            ![p].pc = IF proc[p].session.total_chunks <= 0
                                      THEN "fin_verify" ELSE "fin_loop",
                            ![p].fd_live = proc[p].session.total_chunks > 0]
    /\ response' = NoResponse
    /\ UNCHANGED <<requests, redis, temp_dir, next_uuid, history, now, expiry, outside>>

\* lines 240-248: one turn of the assembly loop
finalize_chunk(p) ==
    /\ proc[p].pc = "fin_loop"
    /\ LET chunk_idx == proc[p].chunk_idx
           chunk_path == ChunkPath(proc[p].upload_id, chunk_idx)
           chunk == temp_dir[chunk_path]
           last == chunk_idx + 1 = proc[p].session.total_chunks
       IN IF ~chunk.exists
          THEN \* HTTPException(500, "Chunk not found"), caught below
               /\ proc' = [proc EXCEPT ![p].pc = "fin_except", ![p].fd_live = FALSE,
                                       ![p].pos = 0, ![p].chunk_idx = 0,
                                       ![p].exc = "Chunk not found"]
               /\ UNCHANGED final_dir
          ELSE /\ final_dir' =
                     IF proc[p].fd_live
                     THEN [final_dir EXCEPT ![FinalPath(p)].content =
                              WriteAt(@, proc[p].pos, chunk.content)]
                     ELSE final_dir
               /\ proc' = [proc EXCEPT ![p].chunk_idx = IF last THEN 0 ELSE chunk_idx + 1,
                                       ![p].pos = IF last THEN 0 ELSE @ + Len(chunk.content),
                                       ![p].pc = IF last THEN "fin_verify" ELSE "fin_loop",
                                       ![p].fd_live = IF last THEN FALSE ELSE @]
    /\ response' = NoResponse
    /\ UNCHANGED <<requests, redis, temp_dir, next_uuid, history, now, expiry, outside>>

\* lines 250-266: re-read the output, compare, schedule the clean-up, answer
finalize_verify(p) ==
    /\ proc[p].pc = "fin_verify"
    /\ LET final == final_dir[FinalPath(p)]
           final_checksum == Sha256(final.content)
       IN IF ~final.exists
          THEN \* FileNotFoundError from calculate_file_checksum
               /\ proc' = [proc EXCEPT ![p].pc = "fin_except",
                                       ![p].exc = "FileNotFoundError"]
               /\ response' = NoResponse
               /\ UNCHANGED <<final_dir, finalized, produced>>
          ELSE IF ChecksumMismatch(proc[p].checksum, final_checksum)
          THEN \* final_path.unlink(); HTTPException(400), caught below
               /\ final_dir' = [final_dir EXCEPT ![FinalPath(p)] = NoFile]
               /\ proc' = [Orphaned(proc, <<"final", FinalPath(p)>>) EXCEPT
                              ![p].pc = "fin_except",
                              ![p].exc = "Final file checksum mismatch"]
               /\ response' = NoResponse
               /\ UNCHANGED <<finalized, produced>>
          ELSE /\ proc' = [proc EXCEPT ![p] =
                     [Idle EXCEPT !.pc = "bg_cleanup", !.op = "finalize",
                                  !.upload_id = proc[p].upload_id]]
               /\ response' = Response("finalize", proc[p],
                     [status |-> "completed", filename |-> proc[p].filename,
                      size |-> Len(final.content), checksum |-> final_checksum])
               /\ finalized' = finalized \cup {proc[p].filename}
               /\ produced' = [produced EXCEPT ![proc[p].filename] = proc[p].upload_id]
               /\ UNCHANGED final_dir
    /\ UNCHANGED <<requests, redis, temp_dir, next_uuid, uploaded, cancelled, purged,
                   expired, now, expiry, outside>>

\* (mutant) the except clause leaves the output where it is
finalize_except_keeps_output(p) ==
    /\ proc[p].pc = "fin_except"
    /\ proc' = [proc EXCEPT ![p] = Idle]
    /\ response' = Response("finalize", proc[p], Reraised("Assembly failed", proc[p].exc))
    /\ UNCHANGED <<requests, redis, temp_dir, final_dir, next_uuid, history,
                   now, expiry, outside>>

\* lines 268-272: the handler's except Exception
finalize_except(p) ==
    /\ proc[p].pc = "fin_except"
    /\ final_dir' = [final_dir EXCEPT ![FinalPath(p)] = NoFile]
    /\ proc' = [Orphaned(proc, <<"final", FinalPath(p)>>) EXCEPT ![p] = Idle]
    /\ response' = Response("finalize", proc[p], Reraised("Assembly failed", proc[p].exc))
    /\ UNCHANGED <<requests, redis, temp_dir, next_uuid, history, now, expiry, outside>>

\* ------------------------------------------------- DELETE /upload/{upload_id}
cancel_upload(p, upload_id) ==
    /\ Accept
    /\ proc[p].pc = "idle"
    /\ LET session == get_upload_session(upload_id)
           req == [Idle EXCEPT !.upload_id = upload_id,
                               !.after_cancel = upload_id \in cancelled]
       IN IF session = NoSession
          THEN /\ response' = Response("cancel", req,
                                  HTTPException(404, "Upload session not found"))
               /\ UNCHANGED <<proc, cancelled>>
          ELSE /\ proc' = [proc EXCEPT ![p] =
                     [Idle EXCEPT !.pc = "bg_cleanup", !.op = "cancel",
                                  !.upload_id = upload_id]]
               /\ response' = Response("cancel", req,
                                  [status |-> "cancelled", upload_id |-> upload_id])
               /\ cancelled' = cancelled \cup {upload_id}
    /\ UNCHANGED <<redis, temp_dir, final_dir, next_uuid, uploaded, purged, finalized,
                   expired, produced, now, expiry, outside>>

\* ------------------------------------------------------------ background tasks
\* cleanup_temp_files: every file TEMP_DIR.glob(f"{upload_id}_*.part") finds
cleanup_temp_files(p) ==
    /\ proc[p].pc = "bg_cleanup"
    /\ LET upload_id == proc[p].upload_id
           gone == {<<"chunk", path>> : path \in {q \in ChunkPaths : q[1] = upload_id}}
       IN /\ temp_dir' = [path \in ChunkPaths |->
                            IF path[1] = upload_id THEN NoFile ELSE temp_dir[path]]
          /\ proc' = [q \in Procs |->
                IF q = p THEN [proc[p] EXCEPT !.pc = "bg_delete"]
                ELSE IF OpenPath(proc[q]) \in gone
                THEN [proc[q] EXCEPT !.fd_live = FALSE] ELSE proc[q]]
    /\ response' = NoResponse
    /\ UNCHANGED <<requests, redis, final_dir, next_uuid, history, now, expiry, outside>>

\* lambda: redis_client.delete(f"upload:{upload_id}")
redis_delete(p) ==
    /\ proc[p].pc = "bg_delete"
    /\ redis' = [redis EXCEPT ![proc[p].upload_id] = NoSession]
    /\ expiry' = [expiry EXCEPT ![proc[p].upload_id] = 0]
    /\ proc' = [proc EXCEPT ![p] = Idle]
    /\ response' = NoResponse
    /\ purged' = IF proc[p].op = "cancel" THEN purged \cup {proc[p].upload_id} ELSE purged
    /\ UNCHANGED <<requests, temp_dir, final_dir, next_uuid, uploaded, cancelled, finalized,
                   expired, produced, now, outside>>

\* ------------------------------------------------------------------ the clock
\* The length of one clock tick, in seconds
TickLength == UPLOAD_TIMEOUT \div TicksPerTimeout

\* Time passes.  Redis drops every key whose time-to-live has run out: a
\* get of such a key finds nothing.
Tick ==
    /\ now < MaxTicks * TickLength
    /\ now' = now + TickLength
    /\ LET due == {u \in Uploads : redis[u] # NoSession /\ expiry[u] <= now'}
       IN /\ redis' = [u \in Uploads |-> IF u \in due THEN NoSession ELSE redis[u]]
          /\ expiry' = [u \in Uploads |-> IF u \in due THEN 0 ELSE expiry[u]]
          /\ expired' = expired \cup due
    /\ response' = NoResponse
    /\ UNCHANGED <<temp_dir, final_dir, next_uuid, proc, requests,
                   uploaded, cancelled, purged, finalized, produced, outside>>

\* ------------------------------------------------------ main.py, the simple server
\* POST /upload-chunk (main.py lines 20-27): no session, any index
simple_upload_chunk(p, upload_id, chunk_index, data) ==
    /\ Accept
    /\ proc[p].pc = "idle"
    /\ proc' = [proc EXCEPT ![p] = [Idle EXCEPT !.pc = "simple_open", !.op = "simple_upload_chunk",
                                                !.upload_id = upload_id,
                                                !.chunk_index = chunk_index, !.data = data]]
    /\ response' = NoResponse
    /\ UNCHANGED <<redis, temp_dir, final_dir, next_uuid, history, now, expiry, outside>>

\* line 28: aiofiles.open(chunk_path, "wb")
simple_chunk_open(p) ==
    /\ proc[p].pc = "simple_open"
    /\ chunk_dir' = [chunk_dir EXCEPT
                        ![SimplePath(proc[p].upload_id, proc[p].chunk_index)] = EmptyFile]
    /\ proc' = [proc EXCEPT ![p].pc = "simple_write", ![p].fd_live = TRUE]
    /\ response' = NoResponse
    /\ UNCHANGED <<redis, temp_dir, final_dir, next_uuid, requests, history, now, expiry,
                   uploads_dir, workload>>

\* lines 29-31: the whole body in one write, then the answer
simple_chunk_write(p) ==
    /\ proc[p].pc = "simple_write"
    /\ LET path == SimplePath(proc[p].upload_id, proc[p].chunk_index)
       IN chunk_dir' =
             IF proc[p].fd_live
             THEN [chunk_dir EXCEPT ![path].content = WriteAt(@, 0, Payload(proc[p].data))]
             ELSE chunk_dir
    /\ proc' = [proc EXCEPT ![p] = Idle]
    /\ response' = Response("simple_upload_chunk", proc[p],
                        [status |-> "ok", chunk |-> proc[p].chunk_index])
    /\ UNCHANGED <<redis, temp_dir, final_dir, next_uuid, requests, history, now, expiry,
                   uploads_dir, workload>>

\* lines 38-41: the first index from i on that has no chunk file
RECURSIVE Probe(_, _)
Probe(upload_id, i) ==
    IF i < MAX_PROBE /\ i \in ChunkIndexes /\ chunk_dir[SimplePath(upload_id, i)].exists
    THEN Probe(upload_id, i + 1) ELSE i

\* lines 42-43: the chunk files 0..n-1, one after the other
RECURSIVE SimpleAssembled(_, _)
SimpleAssembled(upload_id, n) ==
    IF n <= 0 THEN <<>>
    ELSE SimpleAssembled(upload_id, n - 1) \o chunk_dir[SimplePath(upload_id, n - 1)].content

\* POST /finalize-upload (main.py lines 33-56).  The handler never awaits:
\* it runs from its first line to its answer in one piece.
simple_finalize_upload(upload_id, filename, original_checksum) ==
    /\ Accept
    /\ LET req == [Idle EXCEPT !.upload_id = upload_id, !.filename = filename,
                               !.checksum = original_checksum]
           n == Probe(upload_id, 0)
           output == SimpleAssembled(upload_id, n)
           computed_checksum == Str(Sha256(output))
       IN \* line 44: each chunk file is removed as soon as it is copied
          /\ chunk_dir' = [path \in SimplePaths |->
                             IF path[1] = upload_id /\ path[2] \in PyRange(n)
                             THEN NoFile ELSE chunk_dir[path]]
          /\ proc' = [q \in Procs |->
                IF /\ proc[q].pc = "simple_write" /\ proc[q].upload_id = upload_id
                   /\ proc[q].chunk_index \in PyRange(n)
                THEN [proc[q] EXCEPT !.fd_live = FALSE] ELSE proc[q]]
          /\ IF computed_checksum # original_checksum
             THEN /\ uploads_dir' = [uploads_dir EXCEPT ![filename] = NoFile]
                  /\ response' = Response("simple_finalize", req,
                                     [status |-> "error", detail |-> "Checksum mismatch"])
             ELSE /\ uploads_dir' = [uploads_dir EXCEPT
                                        ![filename] = [exists |-> TRUE, content |-> output]]
                  /\ response' = Response("simple_finalize", req,
                                     [status |-> "complete", file |-> filename])
    /\ UNCHANGED <<redis, temp_dir, final_dir, next_uuid, history, now, expiry, workload>>

\* ---------------------------------------------------------------- behaviours
Next ==
    \/ \E filename \in workload.filenames, total_size \in workload.total_sizes,
          chunk_size \in workload.chunk_sizes :
          initiate_upload(filename, total_size, chunk_size)
    \/ \E upload_id \in 1..workload.uploads : get_upload_status(upload_id)
    \/ \E p \in Procs :
        \/ \E upload_id \in 1..workload.uploads, chunk_index \in workload.chunk_indexes,
              data \in workload.data, checksum \in workload.checksums :
              upload_chunk(p, upload_id, chunk_index, data, checksum)
        \/ upload_chunk_open(p)
        \/ upload_chunk_write(p)
        \/ upload_chunk_verify(p)
        \/ upload_chunk_except(p)
        \/ \E upload_id \in 1..workload.uploads, filename \in workload.filenames,
              original_checksum \in workload.original_checksums :
              finalize_upload(p, upload_id, filename, original_checksum)
        \/ finalize_open(p)
        \/ finalize_chunk(p)
        \/ finalize_verify(p)
        \/ finalize_except(p)
        \/ \E upload_id \in 1..workload.uploads : cancel_upload(p, upload_id)
        \/ cleanup_temp_files(p)
        \/ redis_delete(p)

Spec == Init /\ [][Next]_vars

\* Uploads that share the service.
SpecShared == InitShared /\ [][Next]_vars

\* The service while time passes.
NextClock == Next \/ Tick

SpecClock == InitClock /\ [][NextClock]_vars

\* A handler that has started goes on to its end, and so do the background
\* tasks and the clock; no client has to send anything.
Handler(p) ==
    \/ upload_chunk_open(p) \/ upload_chunk_write(p)
    \/ upload_chunk_verify(p) \/ upload_chunk_except(p)
    \/ finalize_open(p) \/ finalize_chunk(p)
    \/ finalize_verify(p) \/ finalize_except(p)
    \/ cleanup_temp_files(p) \/ redis_delete(p)

FairSpecClock ==
    SpecClock /\ WF_vars(Tick) /\ \A p \in Procs : WF_vars(Handler(p))

\* The simple server (main.py).  original_checksum is a required form
\* field: a request always carries a non-empty one.
NextSimple ==
    \/ \E upload_id \in 1..workload.uploads, filename \in workload.filenames,
          original_checksum \in workload.original_checksums \ {EmptyStr} :
          simple_finalize_upload(upload_id, filename, original_checksum)
    \/ \E p \in Procs :
        \/ \E upload_id \in 1..workload.uploads, chunk_index \in workload.chunk_indexes,
              data \in workload.data :
              simple_upload_chunk(p, upload_id, chunk_index, data)
        \/ simple_chunk_open(p)
        \/ simple_chunk_write(p)

SpecSimple == Init /\ [][NextSimple]_vars

\* ------------------------------------------------------------------ helpers
Recorded(upload_id) == Range(redis[upload_id].uploaded_chunks)

UploadsInFlight(upload_id) ==
    {p \in Procs : proc[p].op = "upload_chunk" /\ proc[p].upload_id = upload_id}

\* The step accepts a request (the handler's first step).
Accepted == requests' # requests

\* The declared checksum is a non-empty string other than the digest of the
\* body sent.
DeclaredWrong(req) ==
    Truthy(req.checksum) /\ req.checksum.hex # Sha256(Payload(req.data))

\* A chunk body, whole.
WholeChunk(content) == \E d \in Data : content = Payload(d)

\* --------------------------------------------------------------------- claims

\* C1: once every upload_chunk call on an upload has returned, the stored
\* session holds every index that a call answered "uploaded" for, the
\* indices being valid ones (concurrent admissions lose no update).
C1_NoLostUpdate ==
    \A u \in Uploads :
        (/\ redis[u] # NoSession /\ u \notin cancelled
         /\ UploadsInFlight(u) = {}
         /\ uploaded[u] \subseteq PyRange(redis[u].total_chunks))
            => uploaded[u] \subseteq Recorded(u)

\* C2: an index is recorded in the stored uploaded_chunks exactly when its
\* blob is at the chunk address, whole and verified: every recorded index
\* has its whole blob, and a blob at a chunk address is whole and recorded.
C2_RecordedIffStored ==
    \A u \in Uploads : redis[u] # NoSession =>
        \A i \in FileIndexes :
            LET blob == temp_dir[ChunkPath(u, i)]
            IN /\ i \in Recorded(u) => (blob.exists /\ WholeChunk(blob.content))
               /\ blob.exists => (WholeChunk(blob.content) /\ i \in Recorded(u))

\* C3 as stated: an upload_chunk call whose supplied checksum differs from
\* the digest of its bytes fails, leaves the stored session unchanged and
\* leaves no blob at the chunk address.
C3_DeclaredWrongFails ==
    [][(response'.op = "upload_chunk" /\ DeclaredWrong(response'))
          => /\ response'.result.status = "error"
             /\ redis' = redis
             /\ response'.chunk_index \in FileIndexes
                   => ~temp_dir'[ChunkPath(response'.upload_id, response'.chunk_index)].exists
      ]_vars

\* C3 amended: an upload_chunk call whose supplied non-empty checksum
\* differs from the digest of its bytes is never admitted.  No step of the
\* call changes the stored session; the call never answers "uploaded"; it
\* either is answered on arrival without touching the chunk address (no
\* session, invalid index, index already recorded) or fails after removing
\* what it wrote, so that no blob is at the chunk address when it ends.
C3_MismatchNeverAdmitted ==
    [][/\ \A p \in Procs :
             (proc[p].op = "upload_chunk" /\ DeclaredWrong(proc[p])
                 /\ proc'[p] # proc[p]
                 /\ proc[p].pc \in {"uc_verify", "uc_except"})
                => redis' = redis
       /\ (response'.op = "upload_chunk" /\ DeclaredWrong(response'))
             => /\ redis' = redis
                /\ response'.result.status \in {"error", "already_uploaded"}
                /\ IF Accepted
                   THEN temp_dir' = temp_dir
                   ELSE /\ response'.result.status = "error"
                        /\ ~temp_dir'[ChunkPath(response'.upload_id,
                                                 response'.chunk_index)].exists
      ]_vars

\* C3 witness: a call with a wrong non-empty checksum has written its bytes
\* and has been failed.
C3_Witness ==
    /\ response.op = "upload_chunk"
    /\ DeclaredWrong(response)
    /\ response.result.status = "error"
    /\ response.result.cause = "Chunk checksum mismatch"

\* C4: an upload_chunk call for an index the stored session already holds
\* answers "already_uploaded", and neither the session record nor any chunk
\* blob is written.
C4_ResubmitIdempotent ==
    [][\A u \in Uploads, i \in ChunkIndexes :
          (/\ Accepted
           /\ redis[u] # NoSession /\ i \in Recorded(u)
           /\ \/ response'.op = "upload_chunk" /\ response'.upload_id = u
                    /\ response'.chunk_index = i
              \/ \E p \in Procs : /\ proc[p].pc = "idle" /\ proc'[p].op = "upload_chunk"
                                  /\ proc'[p].upload_id = u /\ proc'[p].chunk_index = i)
          => /\ response'.op = "upload_chunk"
             /\ response'.result.status = "already_uploaded"
             /\ redis' = redis
             /\ temp_dir' = temp_dir
      ]_vars

\* C4 witness: a recorded index was submitted again and answered.
C4_Witness ==
    /\ response.op = "upload_chunk"
    /\ response.result.status = "already_uploaded"
    /\ response.chunk_index \in Recorded(response.upload_id)

\* The step accepts a finalize request for upload u.
FinalizeArrives(u) ==
    /\ Accepted
    /\ \/ response'.op = "finalize" /\ response'.upload_id = u
       \/ \E p \in Procs : /\ proc[p].pc = "idle" /\ proc'[p].op = "finalize"
                           /\ proc'[p].pc = "fin_open" /\ proc'[p].upload_id = u

\* C5: finalize answers incomplete-upload with exactly the missing indices
\* whenever the recorded indices are a strict subset of 0..total_chunks-1,
\* and goes on to assemble only when every index 0..total_chunks-1 is
\* recorded.
C5_FinalizeCompleteness ==
    [][\A u \in Uploads :
          (FinalizeArrives(u) /\ redis[u] # NoSession) =>
             LET all == PyRange(redis[u].total_chunks)
             IN /\ (Recorded(u) \subseteq all /\ Recorded(u) # all)
                     => /\ response'.op = "finalize"
                        /\ response'.result.status = "error"
                        /\ response'.result.detail = "Missing chunks"
                        /\ response'.result.missing = all \ Recorded(u)
                /\ response'.op # "finalize" => all \subseteq Recorded(u)
      ]_vars

\* The chunk blobs 0..n-1 of an upload, one after the other.
RECURSIVE ChunksInOrder(_, _)
ChunksInOrder(upload_id, n) ==
    IF n <= 0 THEN <<>>
    ELSE ChunksInOrder(upload_id, n - 1) \o temp_dir[ChunkPath(upload_id, n - 1)].content

\* C6: when finalize answers "completed", the final file is the chunk
\* contents in ascending index order 0, 1, ..., total_chunks-1, whatever the
\* order the chunks were admitted in.
C6_AssembledInIndexOrder ==
    [][\A p \in Procs :
          (proc[p].pc = "fin_verify" /\ response'.op = "finalize"
              /\ response'.result.status = "completed" /\ proc'[p].pc = "bg_cleanup")
          => /\ final_dir'[proc[p].filename].exists
             /\ final_dir'[proc[p].filename].content =
                   ChunksInOrder(proc[p].upload_id, proc[p].session.total_chunks)
      ]_vars

\* C7: a finalize whose declared whole-file checksum differs from that of
\* the assembled output deletes the output and answers with the
\* checksum-mismatch error, leaving the session record and chunk blobs as
\* they were.
C7_WholeFileMismatch ==
    [][(response'.op = "finalize" /\ response'.result.status = "error"
           /\ response'.result.cause = "Final file checksum mismatch")
          => /\ response'.result.code = 400
             /\ response'.result.detail = "Final file checksum mismatch"
             /\ ~final_dir'[response'.filename].exists
             /\ redis' = redis
             /\ temp_dir' = temp_dir
      ]_vars

\* C8: a final blob exists only for a filename some finalize completed, and
\* never while a finalize is still writing or verifying it.
C8_FinalBlobAtomic ==
    \A f \in Filenames :
        final_dir[f].exists =>
            /\ f \in finalized
            /\ \A p \in Procs :
                  ~(proc[p].filename = f
                       /\ proc[p].pc \in {"fin_loop", "fin_verify", "fin_except"})

ChunkBlobs(upload_id) == {i \in FileIndexes : temp_dir[ChunkPath(upload_id, i)].exists}

\* C9: once a cancel's clean-up has run and the upload_chunk calls that were
\* in flight have completed, the upload has no session record and no chunk
\* blob.
C9_NoResurrection ==
    \A u \in purged :
        UploadsInFlight(u) = {} => (redis[u] = NoSession /\ ChunkBlobs(u) = {})

\* C10: after a cancel has been acknowledged, every later call on that
\* upload_id answers session-not-found, and neither its session record nor
\* a chunk blob of it remains.
C10_AfterCancelNotFound ==
    /\ (response.op \in {"upload_chunk", "status", "finalize", "cancel"}
           /\ response.after_cancel)
          => (response.result.status = "error" /\ response.result.code = 404)
    /\ \A u \in cancelled : redis[u] = NoSession /\ ChunkBlobs(u) = {}

\* A finalize call that has opened the final address of a complete session
\* (every index 0..total_chunks-1 recorded, at least one), and has not
\* answered.
Assembling(p) ==
    /\ proc[p].op = "finalize"
    /\ proc[p].pc \in {"fin_loop", "fin_verify", "fin_except"}
    /\ proc[p].session.total_chunks >= 1
    /\ Range(proc[p].session.uploaded_chunks) = PyRange(proc[p].session.total_chunks)

\* C11: finalize never runs concurrently with itself for one upload_id: of
\* two overlapping finalize calls on the same session at most one opens and
\* writes the final address.
C11_OneFinalizeAssembles ==
    \A p, q \in Procs :
        (p # q /\ Assembling(p) /\ Assembling(q))
            => proc[p].upload_id # proc[q].upload_id

\* C12: the stored uploaded_chunks (of a session of at least one chunk)
\* holds only indices 0 <= i < total_chunks, each once, and an upload_chunk
\* call whose index is outside that range is answered with the
\* invalid-index error.
C12_IndicesInRange ==
    /\ \A u \in Uploads : (redis[u] # NoSession /\ redis[u].total_chunks >= 1) =>
          LET chunks == redis[u].uploaded_chunks
          IN /\ Range(chunks) \subseteq PyRange(redis[u].total_chunks)
             /\ Cardinality(Range(chunks)) = Len(chunks)
    /\ (/\ response.op = "upload_chunk"
        /\ redis[response.upload_id] # NoSession
        /\ redis[response.upload_id].total_chunks >= 1
        /\ response.chunk_index \notin PyRange(redis[response.upload_id].total_chunks))
          => response.result = HTTPException(400, "Invalid chunk index")

\* C13: for total_size >= 1 and chunk_size >= 1 the session that
\* initiate_upload creates has total_chunks = ceil(total_size / chunk_size),
\* and the only indices upload_chunk ever admits for it are
\* 0..total_chunks-1.
C13_ExactlyTotalChunks ==
    /\ (response.op = "initiate" /\ response.result.status = "initiated"
           /\ redis[response.upload_id].total_size >= 1)
          => LET n == response.result.total_chunks
                 chunk_size == response.result.chunk_size
                 total_size == redis[response.upload_id].total_size
             IN /\ redis[response.upload_id].total_chunks = n
                /\ n * chunk_size >= total_size
                /\ (n - 1) * chunk_size < total_size
    /\ \A u \in Uploads :
          (redis[u] # NoSession /\ redis[u].total_size >= 1)
              => uploaded[u] \subseteq PyRange(redis[u].total_chunks)

\* C19: a session with at least one chunk never stores more than
\* total_chunks entries (the progress fraction is at most 1), and it stores
\* total_chunks entries (progress 1) only when every index
\* 0..total_chunks-1 is among them.
C19_ProgressAtMostOne ==
    \A u \in Uploads :
        (redis[u] # NoSession /\ redis[u].total_chunks >= 1)
            => LET chunks == redis[u].uploaded_chunks
                   total_chunks == redis[u].total_chunks
               IN /\ Len(chunks) <= total_chunks
                  /\ Len(chunks) = total_chunks
                        => PyRange(total_chunks) \subseteq Range(chunks)

\* Handler p takes the step.
StepOf(p) ==
    /\ proc[p].pc # "idle"
    /\ \/ proc'[p].pc # proc[p].pc
       \/ proc'[p].pos # proc[p].pos
       \/ proc'[p].chunk_idx # proc[p].chunk_idx

\* The failures of the storage a finalize can meet.
StorageFailures == {"Chunk not found", "FileNotFoundError"}

C17_FinalAddressFromSession ==
    [][\A p \in Procs :
          (proc[p].pc = "fin_verify" /\ proc'[p].pc = "bg_cleanup"
              /\ response'.op = "finalize" /\ response'.result.status = "completed")
          => /\ response'.result.filename = proc[p].session.filename
             /\ final_dir'[proc[p].session.filename].exists
      ]_vars

\* C20: a step of a handler or background task working on one upload_id
\* changes no other upload's session record, no other upload's chunk blob,
\* and no final file that another upload's finalize completed.
C20_SessionsIsolated ==
    [][\A p \in Procs : StepOf(p) =>
          \A v \in Uploads \ {proc[p].upload_id} :
              /\ redis'[v] = redis[v]
              /\ \A i \in FileIndexes :
                    temp_dir'[ChunkPath(v, i)] = temp_dir[ChunkPath(v, i)]
              /\ \A f \in Filenames :
                    produced[f] = v => final_dir'[f] = final_dir[f]
      ]_vars

\* The step accepts an upload_chunk or a finalize request for upload u.
CallArrives(u) ==
    /\ Accepted
    /\ \/ response'.op \in {"upload_chunk", "finalize"} /\ response'.upload_id = u
       \/ \E p \in Procs : /\ proc[p].pc = "idle"
                           /\ proc'[p].pc \in {"uc_open", "fin_open"}
                           /\ proc'[p].upload_id = u

\* C14: a session's deadline is expires_at = created_at + UPLOAD_TIMEOUT and
\* never changes, and an upload_chunk or finalize call that arrives later
\* than expires_at is answered session-not-found.
C14_AbsoluteDeadline ==
    [][\A u \in Uploads :
          /\ redis'[u] # NoSession
                => redis'[u].expires_at = redis'[u].created_at + UPLOAD_TIMEOUT
          /\ (redis[u] # NoSession /\ redis'[u] # NoSession)
                => redis'[u].expires_at = redis[u].expires_at
          /\ (CallArrives(u) /\ redis[u] # NoSession /\ now > redis[u].expires_at)
                => /\ response'.op \in {"upload_chunk", "finalize"}
                   /\ response'.result = HTTPException(404, "Upload session not found")
      ]_vars

\* C15: once the record of an upload has expired, every chunk blob stored
\* for that upload_id is eventually deleted.
C15_ExpiredReaped ==
    \A u \in Uploads :
        (u \in expired /\ redis[u] = NoSession) ~> (ChunkBlobs(u) = {})

\* C18: in the simple server a finalize that fails its checksum comparison
\* (no upload being in flight) leaves every chunk blob that existed before
\* the call where it was.
C18_FailedFinalizeKeepsChunks ==
    [][(/\ response'.op = "simple_finalize" /\ response'.result.status = "error"
        /\ \A p \in Procs : proc[p].pc = "idle")
          => chunk_dir' = chunk_dir
      ]_vars

====
